---- MODULE Spec2Model ----
(***************************************************************************)
(* A model of homeScroller's app.py: the catalog (INDEX) and its cache,    *)
(* the ranking of filter_items / score_match, the paging of api_feed and   *)
(* make_page, and the streaming of stream_video / open_file.               *)
(*                                                                         *)
(* Python strings are sequences of one-character strings.  Python objects  *)
(* (the catalog dicts) live in `heap'; the global INDEX is a reference.    *)
(***************************************************************************)
EXTENDS Integers, Sequences, FiniteSets, TLC

VARIABLES
    heap,       \* catalog objects: sequence of [root, items, done], indexed by reference
    INDEX,      \* app.py:30 the global INDEX: a reference into heap
    reqArgs,    \* the filters of the client: [q, folder, starts_with, limit]
    scoreOut,   \* the scores score_match gave the catalog's entries, or None
    ranked,     \* the list filter_items returned, or None
    feedReq,    \* the offset and limit of the last /api/feed request
    feedResp,   \* the last response of api_feed
    suggestReq, \* the limit of the last /api/suggest request
    suggestResp, \* the last response of api_suggest
    pgOffset,   \* the paging client: next offset to request
    pgAcc,      \* the paging client: items collected so far
    pgPages,    \* the paging client: the pages received so far
    pgDone,     \* the paging client: it has seen offset >= total
    fs,         \* the file system: sequence of [path, kind, target, content, mtime]
    streamReq,  \* the request of /v/<id> or /file/<path>: [route, arg, range]
    streamResp, \* its response, or None
    bld,        \* a build_index call in progress: [pc, root, walk, listed, items, fs0, clean]
    builds,     \* the catalogs build_index has returned: [items, tree, clean, listed, live]
    fsOps,      \* how many times the file tree was changed from outside
    rootArg,    \* the --root argument of the process
    mainPc,     \* main(): "start", "serving", "crashed" (save_index raised), "exit"
    ROOT_DIR,   \* app.config["ROOT_DIR"]
    cache,      \* the cache file .reels_index.json under the root: [kind, root, isList,
                \* items, of]
    startup,    \* what ensure_index found and did
    th          \* the request threads: [pc, idx, walk, view]; a thread's locals go
                \* when its request ends

rankVars == <<scoreOut, ranked>>
feedVars == <<feedReq, feedResp, suggestReq, suggestResp, pgOffset, pgAcc, pgPages, pgDone>>
streamVars == <<streamReq, streamResp>>
buildVars == <<bld, builds, fsOps>>
procVars == <<rootArg, mainPc, ROOT_DIR, cache, startup, th>>
vars == <<heap, INDEX, reqArgs, rankVars, feedVars, fs, buildVars, streamVars, procVars>>

\* a variable that holds nothing yet, and one that holds v
None == [has |-> FALSE, val |-> <<>>]
Some(v) == [has |-> TRUE, val |-> v]
\* a query parameter the request does not carry
NoArg == <<"<absent>">>

----------------------------------------------------------------------------
(* Python built-ins on strings *)

Min(S) == CHOOSE x \in S : \A y \in S : x <= y
Max(S) == CHOOSE x \in S : \A y \in S : x >= y

Rep(c, n) == [i \in 1..n |-> c]

\* str.lower on the letters the model uses
LowerChar(c) ==
    CASE c = "A" -> "a"
      [] c = "B" -> "b"
      [] c = "M" -> "m"
      [] c = "P" -> "p"
      [] c = "V" -> "v"
      [] OTHER -> c

lower(s) == [i \in 1..Len(s) |-> LowerChar(s[i])]

IsSpace(c) == c = " "

\* str.strip(): leading and trailing whitespace removed
strip(s) ==
    LET keep == {i \in 1..Len(s) : ~IsSpace(s[i])}
    IN  IF keep = {} THEN <<>> ELSE SubSeq(s, Min(keep), Max(keep))

\* str.lstrip("/")
lstrip_slash(s) ==
    LET keep == {i \in 1..Len(s) : s[i] # "/"}
    IN  IF keep = {} THEN <<>> ELSE SubSeq(s, Min(keep), Len(s))

\* `sub in s'
Contains(sub, s) ==
    \E i \in 0..(Len(s) - Len(sub)) : SubSeq(s, i + 1, i + Len(sub)) = sub

\* s.startswith(p)
StartsWith(s, p) == Len(p) <= Len(s) /\ SubSeq(s, 1, Len(p)) = p

\* re.split(r"[\s_\-\.]+", s): the pieces between maximal runs of separators,
\* empty pieces at the ends included
IsSep(c) == c \in {" ", "_", "-", "."}

RECURSIVE re_split(_)
re_split(s) ==
    LET seps == {i \in 1..Len(s) : IsSep(s[i])}
    IN  IF seps = {} THEN <<s>>
        ELSE LET i == Min(seps)
                 rest == {j \in (i + 1)..Len(s) : ~IsSep(s[j])}
                 j == IF rest = {} THEN Len(s) + 1 ELSE Min(rest)
             IN  <<SubSeq(s, 1, i - 1)>> \o re_split(SubSeq(s, j, Len(s)))

\* str(n) of an int
DigitChar(d) == <<"0", "1", "2", "3", "4", "5", "6", "7", "8", "9">>[d + 1]

RECURSIVE NatStr(_)
NatStr(n) == IF n < 10 THEN <<DigitChar(n)>> ELSE NatStr(n \div 10) \o <<DigitChar(n % 10)>>

IntStr(n) == IF n < 0 THEN <<"-">> \o NatStr(-n) ELSE NatStr(n)

----------------------------------------------------------------------------
(* app.py:38 safe_norm *)

\* path.replace("\\", "/")
ReplaceBackslash(s) == [i \in 1..Len(s) |-> IF s[i] = "\\" THEN "/" ELSE s[i]]

\* re.sub(r"/+", "/", path): every run of slashes becomes one slash
\* (computed on the two halves of the string, to keep the recursion shallow)
RECURSIVE CollapseSlashes(_)
CollapseSlashes(s) ==
    IF Len(s) <= 1 THEN s
    ELSE LET h == Len(s) \div 2
             l == CollapseSlashes(SubSeq(s, 1, h))
             r == CollapseSlashes(SubSeq(s, h + 1, Len(s)))
         IN  IF l[Len(l)] = "/" /\ r[1] = "/" THEN l \o Tail(r) ELSE l \o r

safe_norm(path) == lstrip_slash(CollapseSlashes(ReplaceBackslash(path)))

----------------------------------------------------------------------------
(* app.py:130 score_match *)

ExactScore == 1000
FilenameBase == 800
RelpathBase == 500
TokenInFilename == 120
TokenInRelpath == 60

RECURSIVE TokenScore(_, _, _)
TokenScore(tokens, f, r) ==
    IF tokens = <<>> THEN 0
    ELSE LET t == Head(tokens)
             s == IF t = <<>> THEN 0
                  ELSE IF Contains(t, f) THEN TokenInFilename
                  ELSE IF Contains(t, r) THEN TokenInRelpath
                  ELSE 0
         IN  s + TokenScore(Tail(tokens), f, r)

score_match(q0, filename, relpath) ==
    LET q == strip(lower(q0))
        f == lower(filename)
        r == lower(relpath)
    IN  IF q = <<>> THEN 0
        ELSE IF q = f THEN ExactScore
        ELSE IF Contains(q, f) THEN FilenameBase - (Len(f) - Len(q))
        ELSE IF Contains(q, r) THEN RelpathBase - (Len(r) - Len(q))
        ELSE TokenScore(re_split(q), f, r)

\* which branch of score_match decides the score of an entry
MatchTier(q0, filename, relpath) ==
    LET q == strip(lower(q0))
        f == lower(filename)
        r == lower(relpath)
    IN  IF q = <<>> THEN "none"
        ELSE IF q = f THEN "exact"
        ELSE IF Contains(q, f) THEN "filename"
        ELSE IF Contains(q, r) THEN "relpath"
        ELSE "token"

----------------------------------------------------------------------------
(* app.py:162 filter_items *)

\* list.sort(key=score, reverse=True): stable, equal scores keep their order
RECURSIVE InsertDesc(_, _)
InsertDesc(sorted, x) ==
    IF sorted = <<>> THEN <<x>>
    ELSE IF Head(sorted)[1] >= x[1] THEN <<Head(sorted)>> \o InsertDesc(Tail(sorted), x)
    ELSE <<x>> \o sorted

RECURSIVE SortDesc(_)
SortDesc(s) ==
    IF s = <<>> THEN <<>>
    ELSE InsertDesc(SortDesc(SubSeq(s, 1, Len(s) - 1)), s[Len(s)])

\* the inclusion test of line 181
KeepScore(s) == s > 0

FolderFilter(items, folder) ==
    IF folder # <<>>
    THEN LET In(it) == it.folder = folder \/ StartsWith(it.folder, folder \o <<"/">>)
         IN  SelectSeq(items, In)
    ELSE items

PrefixFilter(items, starts_with) ==
    IF starts_with # <<>> /\ lower(strip(starts_with)) # <<>>
    THEN LET sw == lower(strip(starts_with))
             In(it) == StartsWith(lower(it.filename), sw)
         IN  SelectSeq(items, In)
    ELSE items

\* `items' is the list INDEX["items"] read at line 165; starts_with = <<>> is None
filter_items(items0, q0, folder0, starts_with) ==
    LET q == strip(q0)
        folder == safe_norm(folder0)
        items == PrefixFilter(FolderFilter(items0, folder), starts_with)
    IN  IF q = <<>> THEN items
        ELSE LET scoredAll == [i \in 1..Len(items) |->
                                 <<score_match(q, items[i].filename, items[i].relpath), items[i]>>]
                 Pos(p) == KeepScore(p[1])
                 scored == SortDesc(SelectSeq(scoredAll, Pos))
             IN  [i \in 1..Len(scored) |-> scored[i][2]]

----------------------------------------------------------------------------
(* app.py:186 make_page, app.py:832 api_feed *)

DEFAULT_PAGE_SIZE == 12
MAX_PAGE_SIZE == 50
DEFAULT_SUGGEST == 8    \* app.py:856, 858
MAX_SUGGEST == 20       \* app.py:859

\* items[a:b] of a Python list
PySlice(items, a, b) ==
    LET n == Len(items)
        lo == IF a < 0 THEN (IF n + a < 0 THEN 0 ELSE n + a) ELSE (IF a > n THEN n ELSE a)
        hi == IF b < 0 THEN (IF n + b < 0 THEN 0 ELSE n + b) ELSE (IF b > n THEN n ELSE b)
    IN  SubSeq(items, lo + 1, hi)

\* a page that loses its last entry
make_page_short(items, offset, limit) ==
    [total |-> Len(items),
     offset |-> offset,
     limit |-> limit,
     items |-> PySlice(items, offset, offset + limit - 1)]

make_page(items, offset, limit) ==
    [total |-> Len(items),
     offset |-> offset,
     limit |-> limit,
     items |-> PySlice(items, offset, offset + limit)]

\* int(s) of a str: surrounding whitespace, an optional sign, decimal digits
IsDigit(c) == c \in {"0", "1", "2", "3", "4", "5", "6", "7", "8", "9"}
DigitVal(c) == CHOOSE d \in 0..9 : DigitChar(d) = c

RECURSIVE DigitsVal(_)
DigitsVal(s) ==
    IF s = <<>> THEN 0 ELSE 10 * DigitsVal(SubSeq(s, 1, Len(s) - 1)) + DigitVal(s[Len(s)])

ParseInt(s0) ==
    LET s == strip(s0)
        signed == s # <<>> /\ s[1] \in {"-", "+"}
        digits == IF signed THEN Tail(s) ELSE s
    IN  IF digits # <<>> /\ \A i \in 1..Len(digits) : IsDigit(digits[i])
        THEN [ok |-> TRUE,
              val |-> IF signed /\ s[1] = "-" THEN 0 - DigitsVal(digits) ELSE DigitsVal(digits)]
        ELSE [ok |-> FALSE, val |-> 0]

\* request.args.get(name, default)
ArgGet(args, name, default) == IF args[name] = NoArg THEN default ELSE args[name]

ClampOffset(offset) == IF offset < 0 THEN 0 ELSE offset
ClampLimit(limit) ==
    LET lo == IF limit < MAX_PAGE_SIZE THEN limit ELSE MAX_PAGE_SIZE
    IN  IF lo > 1 THEN lo ELSE 1

\* `items' is INDEX["items"] as filter_items reads it
api_feed(items, args) ==
    LET q == ArgGet(args, "q", <<>>)
        folder == ArgGet(args, "folder", <<>>)
        starts_with == strip(ArgGet(args, "starts_with", <<>>))
        offset == ParseInt(ArgGet(args, "offset", <<"0">>))
        limit == ParseInt(ArgGet(args, "limit", IntStr(DEFAULT_PAGE_SIZE)))
    IN  IF ~offset.ok \/ ~limit.ok
        THEN [status |-> 400, body |-> <<"bad offset/limit">>]
        ELSE [status |-> 200,
              body |-> make_page(filter_items(items, q, folder, starts_with),
                                 ClampOffset(offset.val), ClampLimit(limit.val))]

\* max(1, min(limit, 20)) of api_suggest
ClampSuggest(limit) ==
    LET lo == IF limit < MAX_SUGGEST THEN limit ELSE MAX_SUGGEST
    IN  IF lo > 1 THEN lo ELSE 1

\* the fields of an entry that api_suggest returns
SuggestEntry(it) ==
    [id |-> it.id, filename |-> it.filename, folder |-> it.folder, relpath |-> it.relpath]

\* `items' is INDEX["items"] as filter_items reads it; a limit that is no integer
\* is replaced by the default (the except branch)
api_suggest(items, args) ==
    LET q == strip(ArgGet(args, "q", <<>>))
        folder == ArgGet(args, "folder", <<>>)
        starts_with == strip(ArgGet(args, "starts_with", <<>>))
        parsed == ParseInt(ArgGet(args, "limit", IntStr(DEFAULT_SUGGEST)))
        limit == ClampSuggest(IF parsed.ok THEN parsed.val ELSE DEFAULT_SUGGEST)
        top == PySlice(filter_items(items, q, folder, starts_with), 0, limit)
    IN  [status |-> 200,
         body |-> [items |-> [i \in 1..Len(top) |-> SuggestEntry(top[i])]]]

----------------------------------------------------------------------------
(* app.py:53 compute_id, app.py:70-85 the item build_index makes of a file *)

\* str(mtime) of the float st_mtime.  A modification time is held in hundredths of
\* a second; str() of a float writes the whole part, a point, and the fraction
\* with no trailing zero but at least one digit: 1.5, 1.51, 1.0
FloatStr(m) ==
    LET frac == m % 100
    IN  NatStr(m \div 100) \o <<".">> \o
        (IF frac % 10 = 0 THEN <<DigitChar(frac \div 10)>>
         ELSE <<DigitChar(frac \div 10), DigitChar(frac % 10)>>)

\* the text the digest is taken of; sha1 is taken to be injective on it
compute_id(relpath, mtime, size) == relpath \o FloatStr(mtime) \o IntStr(size)

\* the item of the file at `rel' (relative to the root, already normalised)
MkItem(rel, mtime, size) ==
    LET slashes == {i \in 1..Len(rel) : rel[i] = "/"}
        ls == IF slashes = {} THEN 0 ELSE Max(slashes)
        parent == IF ls = 0 THEN <<".">> ELSE SubSeq(rel, 1, ls - 1)
        folder == IF safe_norm(parent) = <<".">> THEN <<>> ELSE safe_norm(parent)
    IN  [relpath |-> rel,
         filename |-> SubSeq(rel, ls + 1, Len(rel)),
         folder |-> folder,
         mtime |-> mtime,
         size |-> size,
         id |-> compute_id(rel, mtime, size)]

----------------------------------------------------------------------------
(* The inputs of the ranking and paging checks *)

MaxCatalog == 3     \* entries of a catalog drawn from the pool
LongName == 310     \* length of a long file name, without its extension
LongDir == 500      \* length of a long directory name
ManyTokens == 7     \* tokens of a long query
BigLen == 52        \* entries of the catalog that exceeds a page

ext == <<".", "m", "p", "4">>

\* n times the token "a", separated by spaces
RECURSIVE RepTok(_)
RepTok(n) == IF n <= 1 THEN <<"a">> ELSE RepTok(n - 1) \o <<" ", "a">>

\* the files of the pool, newest first
PoolPaths ==
    << <<"a">> \o ext,
       <<"d", "/", "a">> \o ext,
       <<"d", "/", "e", "/", "a", "b">> \o ext,
       <<"d", "x", "/", "b">> \o ext,
       Rep("x", LongName) \o ext,
       Rep("x", LongDir) \o <<"/", "b">> \o ext,
       RepTok(ManyTokens) \o <<"b">> \o ext,
       RepTok(ManyTokens + 1) \o ext,
       <<"A", ".", "M", "P", "4">> >>

Pool == [i \in 1..Len(PoolPaths) |-> MkItem(PoolPaths[i], Len(PoolPaths) + 1 - i, i)]

RECURSIVE SeqOfSet(_)
SeqOfSet(S) == IF S = {} THEN <<>> ELSE <<Min(S)>> \o SeqOfSet(S \ {Min(S)})

\* the catalogs: the sub-lists of the pool, which keep its order (mtime descending)
CatalogOf(S) == [k \in 1..Cardinality(S) |-> Pool[SeqOfSet(S)[k]]]
Catalogs == {CatalogOf(S) : S \in {T \in SUBSET (1..Len(Pool)) : Cardinality(T) <= MaxCatalog}}

\* a catalog longer than MAX_PAGE_SIZE
BigCatalog == [i \in 1..BigLen |-> MkItem(NatStr(i) \o ext, BigLen + 1 - i, i)]

Queries ==
    { <<>>,
      <<" ">>,
      <<"a">>,
      <<" ", "A", ".", "M", "P", "4", " ">>,
      <<"x">>,
      <<"d">>,
      <<"b">>,
      <<"_", "a">>,
      RepTok(ManyTokens),
      RepTok(ManyTokens + 1) \o ext }

Folders == { <<>>, <<"d">>, <<"/", "d", "/", "/", "e">> }
Prefixes == { <<>>, <<" ", "A">> }

ServedRoot == <<"/", "r">>

\* a catalog object: `done' once build_index has returned it, `pub' the items it
\* had when it was assigned to INDEX
Built(root, items) == [root |-> root, items |-> items, done |-> TRUE, pub |-> Some(items)]

LiveItems == heap[INDEX].items

IdleRank == scoreOut = None /\ ranked = None
IdleFeed ==
    /\ feedReq = None /\ feedResp = None
    /\ suggestReq = None /\ suggestResp = None
    /\ pgOffset = 0 /\ pgAcc = <<>> /\ pgPages = <<>> /\ pgDone = FALSE
IdleStream == streamReq = None /\ streamResp = None
\* no build_index call is in progress and none has returned
NoBuild == [pc |-> "idle", root |-> <<>>, walk |-> <<>>, listed |-> <<>>, items |-> <<>>,
            fs0 |-> <<>>, clean |-> TRUE]
IdleBuild == bld = NoBuild /\ builds = <<>> /\ fsOps = 0
NoFs == fs = <<>>
IdleArgs == reqArgs = [q |-> <<>>, folder |-> <<>>, starts_with |-> <<>>, limit |-> NoArg]
\* the process is up and serving ServedRoot; no reindex is in progress
IdleProc ==
    /\ rootArg = ServedRoot /\ mainPc = "serving" /\ ROOT_DIR = ServedRoot
    /\ cache = [kind |-> "absent", root |-> <<>>, isList |-> FALSE, items |-> <<>>,
                of |-> 0]
    /\ startup = None /\ th = <<>>

----------------------------------------------------------------------------
(* SpecRank: score_match and filter_items applied to the live catalog *)

InitRank ==
    /\ \E c \in Catalogs : heap = <<Built(ServedRoot, c)>>
    /\ INDEX = 1
    /\ \E q \in Queries, folder \in Folders, sw \in Prefixes :
          reqArgs = [q |-> q, folder |-> folder, starts_with |-> sw, limit |-> NoArg]
    /\ IdleRank
    /\ IdleFeed
    /\ IdleBuild
    /\ IdleStream
    /\ NoFs
    /\ IdleProc

\* score_match on every entry of the catalog
ScoreEntries ==
    /\ ~scoreOut.has
    /\ scoreOut' = Some([i \in 1..Len(LiveItems) |->
                      score_match(reqArgs.q, LiveItems[i].filename, LiveItems[i].relpath)])
    /\ UNCHANGED <<heap, INDEX, reqArgs, ranked, feedVars, fs, buildVars, streamVars, procVars>>

\* filter_items as api_feed and api_suggest call it
FilterItems ==
    /\ ~ranked.has
    /\ ranked' = Some(filter_items(LiveItems, reqArgs.q, reqArgs.folder,
                                   strip(reqArgs.starts_with)))
    /\ UNCHANGED <<heap, INDEX, reqArgs, scoreOut, feedVars, fs, buildVars, streamVars, procVars>>

NextRank == ScoreEntries \/ FilterItems

SpecRank == InitRank /\ [][NextRank]_vars

----------------------------------------------------------------------------
(* SpecFeed: /api/feed and /api/suggest requests against an unchanged catalog *)

RawInts ==
    { NoArg, <<"0">>, <<"1">>, <<"3">>, <<"-", "1">>, <<" ", "2">>,
      <<"5", "0">>, <<"5", "1">>, <<"x">> }
\* limits of /api/suggest: absent, in range, clamped, and not integers
SuggestLimits ==
    { NoArg, <<"1">>, <<"3">>, <<"0">>, <<"2", "1">>, <<>>, <<"x">>, <<"1", ".", "5">> }
WalkLimits == { NoArg, <<"1">>, <<"2">>, <<"0">>, <<"-", "1">>, <<"5", "1">> }

FeedCatalogs ==
    {CatalogOf(S) : S \in {T \in SUBSET {1, 2, 3, 4} : Cardinality(T) <= MaxCatalog}}
        \cup {BigCatalog}

InitFeed ==
    /\ \E c \in FeedCatalogs : heap = <<Built(ServedRoot, c)>>
    /\ INDEX = 1
    /\ \E q \in {<<>>, <<"a">>}, folder \in {<<>>, <<"d">>}, limit \in WalkLimits :
          reqArgs = [q |-> q, folder |-> folder, starts_with |-> <<>>, limit |-> limit]
    /\ IdleRank
    /\ IdleFeed
    /\ IdleBuild
    /\ IdleStream
    /\ NoFs
    /\ IdleProc

FeedArgs(offset, limit) ==
    [q |-> reqArgs.q, folder |-> reqArgs.folder, starts_with |-> reqArgs.starts_with,
     offset |-> offset, limit |-> limit]

\* one /api/feed request with any offset and limit.  api_feed keeps no state, so
\* the order of these requests and the paging client's is immaterial: they are
\* taken before the client's first page, one to a run.
ApiFeed ==
    \E offset \in RawInts, limit \in RawInts :
        /\ pgPages = <<>> /\ ~feedResp.has /\ ~suggestResp.has
        /\ feedReq' = Some([offset |-> offset, limit |-> limit])
        /\ feedResp' = Some(api_feed(LiveItems, FeedArgs(offset, limit)))
        /\ UNCHANGED <<heap, INDEX, reqArgs, rankVars, suggestReq, suggestResp,
                       pgOffset, pgAcc, pgPages, pgDone, fs, buildVars, streamVars, procVars>>

\* one /api/suggest request with any limit, taken like ApiFeed's
ApiSuggest ==
    \E limit \in SuggestLimits :
        /\ pgPages = <<>> /\ ~feedResp.has /\ ~suggestResp.has
        /\ suggestReq' = Some([limit |-> limit])
        /\ suggestResp' = Some(api_suggest(LiveItems, FeedArgs(NoArg, limit)))
        /\ UNCHANGED <<heap, INDEX, reqArgs, rankVars, feedReq, feedResp,
                       pgOffset, pgAcc, pgPages, pgDone, fs, buildVars, streamVars, procVars>>

\* the paging client asks for its next page: offsets 0, limit, 2*limit, ...
PageWalk ==
    /\ ~pgDone
    /\ LET resp == api_feed(LiveItems, FeedArgs(IntStr(pgOffset), reqArgs.limit))
       IN  /\ feedReq' = Some([offset |-> IntStr(pgOffset), limit |-> reqArgs.limit])
           /\ feedResp' = Some(resp)
           /\ pgAcc' = pgAcc \o resp.body.items
           /\ pgPages' = Append(pgPages, resp.body)
           /\ pgOffset' = pgOffset + resp.body.limit
           /\ pgDone' = (pgOffset + resp.body.limit >= resp.body.total)
    /\ UNCHANGED <<heap, INDEX, reqArgs, rankVars, suggestReq, suggestResp,
                   fs, buildVars, streamVars, procVars>>

NextFeed == ApiFeed \/ ApiSuggest \/ PageWalk

SpecFeed == InitFeed /\ [][NextFeed]_vars

----------------------------------------------------------------------------
(* Paths and the file system, as pathlib and the OS treat them *)

\* s.split("/")
RECURSIVE SplitSlash(_)
SplitSlash(s) ==
    LET slashes == {i \in 1..Len(s) : s[i] = "/"}
    IN  IF slashes = {} THEN <<s>>
        ELSE <<SubSeq(s, 1, Min(slashes) - 1)>> \o SplitSlash(SubSeq(s, Min(slashes) + 1, Len(s)))

\* the parts of a pure path: empty and "." components are dropped, ".." is kept
PathParts(s) == LET Keep(seg) == seg # <<>> /\ seg # <<".">> IN SelectSeq(SplitSlash(s), Keep)

\* str(path) of an absolute path given by its parts
RECURSIVE JoinParts(_)
JoinParts(parts) ==
    IF parts = <<>> THEN <<>> ELSE <<"/">> \o Head(parts) \o JoinParts(Tail(parts))
PathStr(parts) == IF parts = <<>> THEN <<"/">> ELSE JoinParts(parts)

\* root / relpath: an absolute right operand replaces the left one
PathJoin(rootParts, rel) ==
    IF rel # <<>> /\ rel[1] = "/" THEN PathParts(rel) ELSE rootParts \o PathParts(rel)

Missing == [kind |-> "missing", target |-> <<>>, content |-> <<>>, mtime |-> 0]

\* the node of the file system at the path made of `parts', symbolic links not followed
NodeAt(parts) ==
    IF \E i \in 1..Len(fs) : fs[i].path = parts
    THEN LET n == fs[CHOOSE i \in 1..Len(fs) : fs[i].path = parts]
         IN  [kind |-> n.kind, target |-> n.target, content |-> n.content, mtime |-> n.mtime]
    ELSE Missing

\* Path.resolve(): ".." steps up, symbolic links are followed, components that do
\* not exist are kept as they are
RECURSIVE RealPath(_, _)
RealPath(cur, rest) ==
    IF rest = <<>> THEN cur
    ELSE LET seg == Head(rest)
         IN  IF seg = <<".", ".">>
             THEN RealPath(IF cur = <<>> THEN <<>> ELSE SubSeq(cur, 1, Len(cur) - 1), Tail(rest))
             ELSE IF NodeAt(Append(cur, seg)).kind = "link"
             THEN RealPath(<<>>, NodeAt(Append(cur, seg)).target \o Tail(rest))
             ELSE RealPath(Append(cur, seg), Tail(rest))

resolve(parts) == RealPath(<<>>, parts)

\* `parts' is `root' or below it, component by component
IsUnder(parts, root) == Len(parts) >= Len(root) /\ SubSeq(parts, 1, Len(root)) = root

\* Path.exists() and Path.is_file() of a resolved path
exists(parts) == parts = <<>> \/ NodeAt(parts).kind # "missing"
is_file(parts) == NodeAt(parts).kind = "file"

----------------------------------------------------------------------------
(* app.py:45 is_within_root *)

\* the test without the path separator: a sibling whose name starts like the root passes
is_within_root_nosep(root, target) ==
    LET root_res == resolve(root)
        target_res == resolve(target)
    IN  StartsWith(PathStr(target_res), PathStr(root_res)) \/ target_res = root_res

is_within_root(root, target) ==
    LET root_res == resolve(root)
        target_res == resolve(target)
    IN  StartsWith(PathStr(target_res), PathStr(root_res) \o <<"/">>) \/ target_res = root_res

----------------------------------------------------------------------------
(* app.py:871 stream_video, app.py:910 open_file *)

\* urllib.parse.unquote on the escapes the model uses
HexPairs == << <<"2", "E", ".">>, <<"2", "F", "/">>, <<"5", "C", "\\">> >>
RECURSIVE unquote(_)
unquote(s) ==
    IF s = <<>> THEN <<>>
    ELSE IF s[1] = "%" /\ Len(s) >= 3 /\ \E k \in 1..Len(HexPairs) :
                                            HexPairs[k][1] = s[2] /\ HexPairs[k][2] = s[3]
    THEN LET k == CHOOSE k \in 1..Len(HexPairs) :
                        HexPairs[k][1] = s[2] /\ HexPairs[k][2] = s[3]
         IN  <<HexPairs[k][3]>> \o unquote(SubSeq(s, 4, Len(s)))
    ELSE <<s[1]>> \o unquote(Tail(s))

\* re.match(r"bytes=(\d+)-(\d*)", h): the two groups, or no match
BytesEq == <<"b", "y", "t", "e", "s", "=">>
DigitRun(s) ==
    LET stop == {i \in 1..Len(s) : ~IsDigit(s[i])}
    IN  IF stop = {} THEN s ELSE SubSeq(s, 1, Min(stop) - 1)

MatchRange(h) ==
    IF ~StartsWith(h, BytesEq) THEN [ok |-> FALSE, g1 |-> <<>>, g2 |-> <<>>]
    ELSE LET rest == SubSeq(h, Len(BytesEq) + 1, Len(h))
             g1 == DigitRun(rest)
             after == SubSeq(rest, Len(g1) + 1, Len(rest))
         IN  IF g1 # <<>> /\ after # <<>> /\ after[1] = "-"
             THEN [ok |-> TRUE, g1 |-> g1, g2 |-> DigitRun(Tail(after))]
             ELSE [ok |-> FALSE, g1 |-> <<>>, g2 |-> <<>>]

\* get_item_by_id over the list INDEX["items"]
get_item_by_id(items, item_id) ==
    LET hits == {i \in 1..Len(items) : items[i].id = item_id}
    IN  IF hits = {} THEN None ELSE Some(items[Min(hits)])

\* a response: `opened' tells whether the handler opened the file itself (line 900)
\* or through send_file, `file' is the resolved path of the file the body is read from
Abort(code) ==
    [status |-> code, body |-> <<>>, content_range |-> <<>>, content_length |-> <<>>,
     opened |-> FALSE, file |-> <<>>]

\* send_file(path, conditional=True) of a request the handler did not treat as a
\* range request: the whole file
send_file(target) ==
    IF NodeAt(target).kind # "file" THEN Abort(500) ELSE
    [status |-> 200, body |-> NodeAt(target).content, content_range |-> <<>>,
     content_length |-> IntStr(Len(NodeAt(target).content)), opened |-> TRUE, file |-> target]

\* line 895 without the clamp
ClampEndNone(end, size) == end

\* line 895: end = min(end, size - 1)
ClampEnd(end, size) == IF end < size - 1 THEN end ELSE size - 1

\* f.seek(start); f.read(length)
ReadAt(content, start, length) ==
    SubSeq(content, start + 1, IF start + length < Len(content) THEN start + length ELSE Len(content))

\* a partial response whose Content-Length is the clamped length less one
PartialShort(target, start, end, size) ==
    [status |-> 206,
     body |-> ReadAt(NodeAt(target).content, start, end - start + 1),
     content_range |-> <<"b", "y", "t", "e", "s", " ">> \o IntStr(start) \o <<"-">>
                          \o IntStr(end) \o <<"/">> \o IntStr(size),
     content_length |-> IntStr(end - start),
     opened |-> TRUE,
     file |-> target]

\* lines 899-908
Partial(target, start, end, size) ==
    [status |-> 206,
     body |-> ReadAt(NodeAt(target).content, start, end - start + 1),
     content_range |-> <<"b", "y", "t", "e", "s", " ">> \o IntStr(start) \o <<"-">>
                          \o IntStr(end) \o <<"/">> \o IntStr(size),
     content_length |-> IntStr(end - start + 1),
     opened |-> TRUE,
     file |-> target]

\* `rootCfg' is app.config["ROOT_DIR"], `range' the Range header or NoArg
stream_video(rootCfg, items, item_id, range) ==
    LET root == resolve(PathParts(rootCfg))
        it == get_item_by_id(items, item_id)
    IN  IF ~it.has THEN Abort(404)
        ELSE LET target == resolve(PathJoin(root, it.val.relpath))
             IN  IF ~is_within_root(root, target) \/ ~exists(target) THEN Abort(404)
                 ELSE IF range = NoArg \/ range = <<>> THEN send_file(target)
                 ELSE LET size == Len(NodeAt(target).content)
                          m == MatchRange(range)
                      IN  IF ~m.ok THEN send_file(target)
                          ELSE LET start == DigitsVal(m.g1)
                                   end == ClampEnd(IF m.g2 # <<>> THEN DigitsVal(m.g2)
                                                   ELSE size - 1, size)
                               IN  IF start > end THEN Abort(416)
                                   ELSE Partial(target, start, end, size)

open_file(rootCfg, relpath0) ==
    LET root == resolve(PathParts(rootCfg))
        relpath == safe_norm(unquote(relpath0))
        target == resolve(PathJoin(root, relpath))
    IN  IF ~is_within_root(root, target) \/ ~exists(target) \/ ~is_file(target)
        THEN Abort(404)
        ELSE send_file(target)

----------------------------------------------------------------------------
(* SpecStream: one /v/<id> or /file/<path> request against a file tree *)

FileSize == 12      \* bytes of the large file
MaxPos == 13        \* largest start or end of a range

nR == <<"r">>
nD == <<"d">>
nO == <<"o">>
nRx == <<"r", "x">>
nA == <<"a">> \o ext
nE == <<"e">> \o ext
nS == <<"s">> \o ext
nIn == <<"i", "n">> \o ext
nLnk == <<"l", "n", "k">> \o ext
nOut == <<"o", "u", "t">>
nN == <<"n", ".", "t", "x", "t">>

File(path, content, mtime) ==
    [path |-> path, kind |-> "file", target |-> <<>>, content |-> content, mtime |-> mtime]
Dir(path) == [path |-> path, kind |-> "dir", target |-> <<>>, content |-> <<>>, mtime |-> 0]
Link(path, target) ==
    [path |-> path, kind |-> "link", target |-> target, content |-> <<>>, mtime |-> 0]

\* /r is the root; /rx and /o lie outside it; /r/lnk.mp4 and /r/out lead outside
StreamFs ==
    << Dir(<<nR>>),
       File(<<nR, nA>>, [i \in 1..FileSize |-> 100 + i], 5),
       File(<<nR, nE>>, <<>>, 4),
       Dir(<<nR, nD>>),
       File(<<nR, nD, nA>>, <<20, 21>>, 3),
       Link(<<nR, nIn>>, <<nR, nA>>),
       Link(<<nR, nLnk>>, <<nO, nS>>),
       Link(<<nR, nOut>>, <<nO>>),
       Dir(<<nRx>>),
       File(<<nRx, nS>>, <<66>>, 2),
       Dir(<<nO>>),
       File(<<nO, nS>>, <<77>>, 1) >>

\* the relative paths of the catalog's entries: built by a walk, or adopted from a
\* cache file
StreamPaths ==
    << nA, nE, nD \o <<"/">> \o nA, nIn, nLnk,
       nOut \o <<"/">> \o nS,
       <<".", ".", "/">> \o nO \o <<"/">> \o nS,
       <<".", ".", "/">> \o nRx \o <<"/">> \o nS,
       <<"/">> \o nO \o <<"/">> \o nS,
       <<"g">> \o ext,
       <<".", ".", "/">> \o nO \o <<"/", "g">> \o ext >>

StreamCatalog == [i \in 1..Len(StreamPaths) |-> MkItem(StreamPaths[i], Len(StreamPaths) + 1 - i, i)]

\* the paths asked of /file/<path>
OpenPaths ==
    {StreamPaths[i] : i \in 1..Len(StreamPaths)} \cup
    { <<"%", "2", "E", "%", "2", "E", "/">> \o nO \o <<"/">> \o nS,
      <<".", ".", "\\">> \o nRx \o <<"\\">> \o nS,
      <<"/", "/">> \o nA,
      nD \o <<"/", ".", ".", "/">> \o nA,
      nD,
      <<>> }

\* the header "bytes=<start>-<end>"; end = -1 stands for an omitted end
Hdr(start, end) ==
    BytesEq \o IntStr(start) \o <<"-">> \o (IF end < 0 THEN <<>> ELSE IntStr(end))

RangeHeaders ==
    {Hdr(st, en) : st \in 0..MaxPos, en \in (-1)..MaxPos} \cup
    { NoArg, <<>>, BytesEq \o <<"-", "2">>, BytesEq \o <<"2">>,
      <<"i", "t", "e", "m", "s", "=", "0", "-", "1">> }

UnknownId == <<"?">>

StreamRequests ==
    {[route |-> "v", arg |-> id, range |-> h] :
        id \in {StreamCatalog[i].id : i \in 1..Len(StreamCatalog)} \cup {UnknownId},
        h \in RangeHeaders}
    \cup {[route |-> "file", arg |-> path, range |-> NoArg] : path \in OpenPaths}

InitStream ==
    /\ heap = <<Built(ServedRoot, StreamCatalog)>>
    /\ INDEX = 1
    /\ fs = StreamFs
    /\ \E r \in StreamRequests : streamReq = Some(r)
    /\ streamResp = None
    /\ IdleArgs
    /\ IdleRank
    /\ IdleFeed
    /\ IdleBuild
    /\ IdleProc

StreamVideo ==
    /\ streamReq.val.route = "v" /\ ~streamResp.has
    /\ streamResp' = Some(stream_video(ROOT_DIR, LiveItems, streamReq.val.arg,
                                       streamReq.val.range))
    /\ UNCHANGED <<heap, INDEX, reqArgs, rankVars, feedVars, fs, buildVars, streamReq, procVars>>

OpenFile ==
    /\ streamReq.val.route = "file" /\ ~streamResp.has
    /\ streamResp' = Some(open_file(ROOT_DIR, streamReq.val.arg))
    /\ UNCHANGED <<heap, INDEX, reqArgs, rankVars, feedVars, fs, buildVars, streamReq, procVars>>

NextStream == StreamVideo \/ OpenFile

SpecStream == InitStream /\ [][NextStream]_vars

----------------------------------------------------------------------------
(* app.py:60 build_index *)

VIDEO_EXTS == { ext, <<".", "m", "o", "v">>, <<".", "m", "4", "v">>, <<".", "w", "e", "b", "m">> }

\* PurePath.suffix of a file name
suffix(name) ==
    LET dots == {i \in 2..Len(name) : name[i] = "."}
    IN  IF dots = {} \/ Max(dots) = Len(name) THEN <<>> ELSE SubSeq(name, Max(dots), Len(name))

\* str(p.relative_to(root_dir))
RECURSIVE JoinRel(_)
JoinRel(parts) ==
    IF parts = <<>> THEN <<>>
    ELSE IF Len(parts) = 1 THEN parts[1]
    ELSE Head(parts) \o <<"/">> \o JoinRel(Tail(parts))

\* the paths root_dir.rglob("*") yields that pass the tests of lines 65-68
VideoFiles(rootParts) ==
    LET Test(n) == /\ IsUnder(n.path, rootParts) /\ n.path # rootParts
                   /\ is_file(resolve(n.path))
                   /\ lower(suffix(n.path[Len(n.path)])) \in VIDEO_EXTS
    IN  SelectSeq(fs, Test)

\* lines 70-85: the item of the path p
ItemOf(rootParts, p) ==
    LET st == NodeAt(resolve(p.path))
        rel == safe_norm(JoinRel(SubSeq(p.path, Len(rootParts) + 1, Len(p.path))))
    IN  [MkItem(rel, st.mtime, Len(st.content)) EXCEPT !.filename = p.path[Len(p.path)]]

\* line 88: items.sort(key=mtime, reverse=True)
SortItems(items) ==
    LET keyed == SortDesc([i \in 1..Len(items) |-> <<items[i].mtime, items[i]>>])
    IN  [i \in 1..Len(keyed) |-> keyed[i][2]]

\* build_index run to its end without interruption
build_index(rootParts) ==
    LET files == VideoFiles(rootParts)
    IN  [root |-> PathStr(rootParts),
         items |-> SortItems([i \in 1..Len(files) |-> ItemOf(rootParts, files[i])]),
         done |-> TRUE,
         pub |-> None]

----------------------------------------------------------------------------
(* SpecBuild: build_index calls, step by step, on a file tree that other *)
(* processes change                                                      *)

MaxBuilds == 2      \* build_index calls that return
MaxFsOps == 2       \* changes made to the file tree from outside

nB == <<"b", ".", "M", "P", "4">>
nBs == nD \o <<"\\">> \o nA      \* one file name with a backslash in it: d\a.mp4

\* /r is the root; /r/d/a.mp4 lies in a directory, /r/d\a.mp4 beside it
BuildFs ==
    << Dir(<<nR>>),
       File(<<nR, nA>>, Rep(0, 12), 150),
       Dir(<<nR, nD>>),
       File(<<nR, nD, nA>>, Rep(0, 2), 120),
       File(<<nR, nBs>>, Rep(0, 1), 110),
       File(<<nR, nB>>, Rep(0, 3), 130),
       File(<<nR, nN>>, Rep(0, 1), 100) >>

\* the modification times and sizes a file is given from outside
TouchMtimes == {150, 151}
TouchSizes == {2, 12}

InitBuild ==
    /\ heap = <<Built(ServedRoot, <<>>)>>
    /\ INDEX = 1
    /\ fs = BuildFs
    /\ IdleArgs
    /\ IdleRank
    /\ IdleFeed
    /\ IdleBuild
    /\ IdleStream
    /\ IdleProc

\* line 64: root_dir.rglob("*") lists what lies under the root
BuildStart ==
    /\ bld.pc \in {"idle", "aborted"}
    /\ Len(builds) < MaxBuilds
    /\ LET rootParts == resolve(PathParts(ROOT_DIR))
           Below(n) == IsUnder(n.path, rootParts) /\ n.path # rootParts
           found == SelectSeq(fs, Below)
           listing == [i \in 1..Len(found) |-> found[i].path]
       IN  bld' = [pc |-> "walk", root |-> rootParts, walk |-> listing, listed |-> listing,
                   items |-> <<>>, fs0 |-> fs, clean |-> TRUE]
    /\ UNCHANGED <<heap, INDEX, reqArgs, rankVars, feedVars, fs, builds, fsOps,
                   streamVars, procVars>>

\* lines 65-68: the tests on the next path of the walk
BuildCheck ==
    /\ bld.pc = "walk" /\ bld.walk # <<>>
    /\ LET p == Head(bld.walk)
       IN  IF is_file(resolve(p)) /\ lower(suffix(p[Len(p)])) \in VIDEO_EXTS
           THEN bld' = [bld EXCEPT !.pc = "stat"]
           ELSE bld' = [bld EXCEPT !.walk = Tail(bld.walk)]
    /\ UNCHANGED <<heap, INDEX, reqArgs, rankVars, feedVars, fs, builds, fsOps,
                   streamVars, procVars>>

\* lines 70-85: p.stat() and the item; stat of a path that is gone raises
\* FileNotFoundError, which nothing in build_index catches
BuildStat ==
    /\ bld.pc = "stat"
    /\ LET p == Head(bld.walk)
       IN  IF NodeAt(resolve(p)).kind = "missing"
           THEN bld' = [bld EXCEPT !.pc = "aborted"]
           ELSE bld' = [bld EXCEPT !.pc = "walk",
                                   !.walk = Tail(bld.walk),
                                   !.items = Append(bld.items, ItemOf(bld.root, [path |-> p]))]
    /\ UNCHANGED <<heap, INDEX, reqArgs, rankVars, feedVars, fs, builds, fsOps,
                   streamVars, procVars>>

\* lines 87-95: the sort and the return
BuildReturn ==
    /\ bld.pc = "walk" /\ bld.walk = <<>>
    /\ LET live == VideoFiles(bld.root)
       IN  builds' = Append(builds,
                        [items |-> SortItems(bld.items), tree |-> bld.fs0, clean |-> bld.clean,
                         listed |-> bld.listed,
                         live |-> [i \in 1..Len(live) |-> live[i].path]])
    /\ bld' = NoBuild
    /\ UNCHANGED <<heap, INDEX, reqArgs, rankVars, feedVars, fs, fsOps, streamVars, procVars>>

\* a build in progress has seen the tree change
Dirty(b) == IF b.pc \in {"walk", "stat"} THEN [b EXCEPT !.clean = FALSE] ELSE b

\* another process rewrites a video file: new size, new modification time
Touch ==
    /\ fsOps < MaxFsOps
    /\ \E i \in 1..Len(fs), m \in TouchMtimes, sz \in TouchSizes :
          /\ fs[i].kind = "file"
          /\ lower(suffix(fs[i].path[Len(fs[i].path)])) \in VIDEO_EXTS
          /\ <<fs[i].mtime, Len(fs[i].content)>> # <<m, sz>>
          /\ fs' = [fs EXCEPT ![i] = File(fs[i].path, Rep(0, sz), m)]
    /\ fsOps' = fsOps + 1
    /\ bld' = Dirty(bld)
    /\ UNCHANGED <<heap, INDEX, reqArgs, rankVars, feedVars, builds, streamVars, procVars>>

\* another process deletes a file
Remove ==
    /\ fsOps < MaxFsOps
    /\ \E i \in 1..Len(fs) :
          /\ fs[i].kind = "file"
          /\ fs' = SubSeq(fs, 1, i - 1) \o SubSeq(fs, i + 1, Len(fs))
    /\ fsOps' = fsOps + 1
    /\ bld' = Dirty(bld)
    /\ UNCHANGED <<heap, INDEX, reqArgs, rankVars, feedVars, builds, streamVars, procVars>>

NextBuild == BuildStart \/ BuildCheck \/ BuildStat \/ BuildReturn \/ Touch \/ Remove

SpecBuild == InitBuild /\ [][NextBuild]_vars

----------------------------------------------------------------------------
(* app.py:97 save_index, app.py:100 load_index, app.py:103 ensure_index *)

Cache(kind, root, isList, items) ==
    [kind |-> kind, root |-> root, isList |-> isList, items |-> items, of |-> 0]
NoCache == Cache("absent", <<>>, FALSE, <<>>)

\* the file save_index writes for a catalog
Saved(idx) == Cache("object", idx.root, TRUE, idx.items)

\* the same file, known by the catalog object it was written from: the text holds
\* that catalog's built_at (line 91), which no other build shares
SavedOf(idx, ref) == [Saved(idx) EXCEPT !.of = ref]

\* line 114 without the comparison of the roots
CacheValidAnyRoot(c, rootStr) == c.kind = "object" /\ c.isList

\* lines 110-118: the file exists, json.loads gives a dict, and the sanity check
\* of line 114 passes (anything else raises or falls through)
CacheValid(c, rootStr) == c.kind = "object" /\ c.root = rootStr /\ c.isList

----------------------------------------------------------------------------
(* Spec: main() and the request threads of the threaded server *)

NThreads == 2       \* request threads
MaxObjects == 4     \* catalog objects ever made (the placeholder included)

Threads == 1..NThreads

nL == <<"l">>

\* /r holds two videos and a text file; /l is a symbolic link to /r
IndexFs ==
    << Dir(<<nR>>),
       Dir(<<nR, nD>>),
       File(<<nR, nD, nA>>, <<20, 21>>, 1),
       File(<<nR, nA>>, <<10>>, 2),
       File(<<nR, nN>>, <<30>>, 3),
       Link(<<nL>>, <<nR>>) >>

\* the process is started on the link, or on a path that does not exist
RootArgs == { <<"/">> \o nL, <<"/", "g">> }

\* an older catalog, as a cache file may hold it
StaleItems == <<MkItem(nA, 1, 1)>>

CacheFiles ==
    { NoCache, Cache("garbage", <<>>, FALSE, <<>>), Cache("array", <<>>, FALSE, <<>>) }
    \cup {Cache("object", root, isList, IF isList THEN StaleItems ELSE <<>>) :
              root \in {<<"/">> \o nR, <<"/">> \o nL}, isList \in BOOLEAN}

IdleThread ==
    [pc |-> "idle", idx |-> 0, walk |-> <<>>, view |-> [ref |-> 0, seen |-> <<>>]]

\* app.py:30: the INDEX the module starts with
Placeholder == [root |-> <<>>, items |-> <<>>, done |-> TRUE, pub |-> Some(<<>>)]

Init ==
    /\ heap = <<Placeholder>>
    /\ INDEX = 1
    /\ fs = IndexFs
    /\ rootArg \in RootArgs
    /\ mainPc = "start"
    /\ ROOT_DIR = <<>>
    /\ cache \in CacheFiles
    /\ startup = None
    /\ th = [t \in Threads |-> IdleThread]
    /\ IdleArgs
    /\ IdleRank
    /\ IdleFeed
    /\ IdleBuild
    /\ IdleStream

Put(h, ref, obj) == IF ref > Len(h) THEN Append(h, obj) ELSE [h EXCEPT ![ref] = obj]

Publish(obj) == [obj EXCEPT !.pub = Some(obj.items)]

\* main(), lines 948-950: the root does not exist or is no directory
MainNoRoot ==
    /\ mainPc = "start"
    /\ NodeAt(resolve(PathParts(rootArg))).kind # "dir"
    /\ mainPc' = "exit"
    /\ UNCHANGED <<heap, INDEX, reqArgs, rankVars, feedVars, fs, buildVars, streamVars,
                   rootArg, ROOT_DIR, cache, startup, th>>

StartupRecord(adopted, built) ==
    Some([adopted |-> adopted, built |-> built,
          exists |-> cache.kind # "absent",
          parses |-> cache.kind \in {"array", "object"},
          isObject |-> cache.kind = "object",
          rootEq |-> cache.kind = "object" /\ cache.root = PathStr(resolve(PathParts(rootArg))),
          isList |-> cache.kind = "object" /\ cache.isList,
          live |-> Len(heap) + 1])

\* main() with ensure_index, the cache adopted (lines 110-116)
MainAdopt ==
    /\ mainPc = "start"
    /\ LET root_dir == resolve(PathParts(rootArg))
       IN  /\ NodeAt(root_dir).kind = "dir"
           /\ CacheValid(cache, PathStr(root_dir))
           /\ ROOT_DIR' = PathStr(root_dir)
           /\ heap' = Append(heap, Built(cache.root, cache.items))
           /\ INDEX' = Len(heap) + 1
           /\ startup' = StartupRecord(TRUE, 0)
           /\ mainPc' = "serving"
    /\ UNCHANGED <<reqArgs, rankVars, feedVars, fs, buildVars, streamVars, rootArg, cache, th>>

\* main() with ensure_index, the catalog built (lines 120-121); save_index may raise
MainBuild ==
    /\ mainPc = "start"
    /\ LET root_dir == resolve(PathParts(rootArg))
       IN  /\ NodeAt(root_dir).kind = "dir"
           /\ ~CacheValid(cache, PathStr(root_dir))
           /\ ROOT_DIR' = PathStr(root_dir)
           /\ heap' = Append(heap, Publish(build_index(root_dir)))
           /\ INDEX' = Len(heap) + 1
           /\ startup' = StartupRecord(FALSE, Len(heap) + 1)
           /\ \/ cache' = SavedOf(build_index(root_dir), Len(heap) + 1) /\ mainPc' = "serving"
              \/ cache' = cache /\ mainPc' = "crashed"
    /\ UNCHANGED <<reqArgs, rankVars, feedVars, fs, buildVars, streamVars, rootArg, th>>

\* the object build_index fills: a list of its own (line 61)
BuildTargetLive(t) == INDEX
BuildTarget(t) == Len(heap) + 1

\* GET /?reindex=1, line 125: build_index starts its walk
StartReindex(t) ==
    /\ mainPc = "serving" /\ th[t].pc = "idle"
    /\ Len(heap) < MaxObjects
    /\ heap' = Put(heap, BuildTarget(t),
                   [root |-> ROOT_DIR, items |-> <<>>, done |-> FALSE, pub |-> None])
    /\ th' = [th EXCEPT ![t] = [IdleThread EXCEPT !.pc = "walk", !.idx = BuildTarget(t),
                                   !.walk = VideoFiles(PathParts(ROOT_DIR))]]
    /\ UNCHANGED <<INDEX, reqArgs, rankVars, feedVars, fs, buildVars, streamVars,
                   rootArg, mainPc, ROOT_DIR, cache, startup>>

\* lines 64-85: one more item appended
WalkStep(t) ==
    /\ th[t].pc = "walk" /\ th[t].walk # <<>>
    /\ heap' = [heap EXCEPT ![th[t].idx].items =
                    Append(@, ItemOf(PathParts(ROOT_DIR), Head(th[t].walk)))]
    /\ th' = [th EXCEPT ![t].walk = Tail(@)]
    /\ UNCHANGED <<INDEX, reqArgs, rankVars, feedVars, fs, buildVars, streamVars,
                   rootArg, mainPc, ROOT_DIR, cache, startup>>

\* lines 88-95: the sort, and the catalog returned
FinishBuild(t) ==
    /\ th[t].pc = "walk" /\ th[t].walk = <<>>
    /\ heap' = [heap EXCEPT ![th[t].idx].items = SortItems(@), ![th[t].idx].done = TRUE]
    /\ th' = [th EXCEPT ![t].pc = "save"]
    /\ UNCHANGED <<INDEX, reqArgs, rankVars, feedVars, fs, buildVars, streamVars,
                   rootArg, mainPc, ROOT_DIR, cache, startup>>

\* line 126: save_index writes the cache file
SaveIndex(t) ==
    /\ th[t].pc = "save"
    /\ cache' = SavedOf(heap[th[t].idx], th[t].idx)
    /\ th' = [th EXCEPT ![t].pc = "assign"]
    /\ UNCHANGED <<heap, INDEX, reqArgs, rankVars, feedVars, fs, buildVars, streamVars,
                   rootArg, mainPc, ROOT_DIR, startup>>

\* line 126: save_index raises, and the exception leaves the handler
SaveIndexFails(t) ==
    /\ th[t].pc = "save"
    /\ th' = [th EXCEPT ![t].pc = "failed"]
    /\ UNCHANGED <<heap, INDEX, reqArgs, rankVars, feedVars, fs, buildVars, streamVars,
                   rootArg, mainPc, ROOT_DIR, cache, startup>>

\* the request that raised is answered 500
ErrorResponse(t) ==
    /\ th[t].pc = "failed"
    /\ th' = [th EXCEPT ![t] = IdleThread]
    /\ UNCHANGED <<heap, INDEX, reqArgs, rankVars, feedVars, fs, buildVars, streamVars,
                   rootArg, mainPc, ROOT_DIR, cache, startup>>

\* line 128: INDEX = idx, and the page is rendered
AssignIndex(t) ==
    /\ th[t].pc = "assign"
    /\ INDEX' = th[t].idx
    /\ heap' = [heap EXCEPT ![th[t].idx] = Publish(@)]
    /\ th' = [th EXCEPT ![t] = IdleThread]
    /\ UNCHANGED <<reqArgs, rankVars, feedVars, fs, buildVars, streamVars,
                   rootArg, mainPc, ROOT_DIR, cache, startup>>

\* a reading request (api_folders, filter_items, get_item_by_id) takes the catalog
\* from INDEX: lines 830, 165, 207
ReadStart(t) ==
    /\ mainPc = "serving" /\ th[t].pc = "idle"
    /\ th' = [th EXCEPT ![t] = [IdleThread EXCEPT !.pc = "read",
                                   !.view = [ref |-> INDEX, seen |-> <<>>]]]
    /\ UNCHANGED <<heap, INDEX, reqArgs, rankVars, feedVars, fs, buildVars, streamVars,
                   rootArg, mainPc, ROOT_DIR, cache, startup>>

\* the request's loop over the list reads its next element
ReadStep(t) ==
    /\ th[t].pc = "read"
    /\ Len(th[t].view.seen) < Len(heap[th[t].view.ref].items)
    /\ th' = [th EXCEPT ![t].view.seen =
                  Append(@, heap[th[t].view.ref].items[Len(th[t].view.seen) + 1])]
    /\ UNCHANGED <<heap, INDEX, reqArgs, rankVars, feedVars, fs, buildVars, streamVars,
                   rootArg, mainPc, ROOT_DIR, cache, startup>>

\* the loop ends and the response is sent
ReadEnd(t) ==
    /\ th[t].pc = "read"
    /\ Len(th[t].view.seen) >= Len(heap[th[t].view.ref].items)
    /\ th' = [th EXCEPT ![t] = IdleThread]
    /\ UNCHANGED <<heap, INDEX, reqArgs, rankVars, feedVars, fs, buildVars, streamVars,
                   rootArg, mainPc, ROOT_DIR, cache, startup>>

Next ==
    \/ MainNoRoot
    \/ MainAdopt
    \/ MainBuild
    \/ \E t \in Threads : StartReindex(t)
    \/ \E t \in Threads : WalkStep(t)
    \/ \E t \in Threads : FinishBuild(t)
    \/ \E t \in Threads : SaveIndex(t)
    \/ \E t \in Threads : SaveIndexFails(t)
    \/ \E t \in Threads : ErrorResponse(t)
    \/ \E t \in Threads : AssignIndex(t)
    \/ \E t \in Threads : ReadStart(t)
    \/ \E t \in Threads : ReadStep(t)
    \/ \E t \in Threads : ReadEnd(t)

Spec == Init /\ [][Next]_vars

----------------------------------------------------------------------------
(* Claims about the catalog and its cache (Spec) *)

\* C1: with request handlers running concurrently, no read observes a half-built
\* catalog or a mix of two builds: the catalog a reader holds was complete when it
\* was assigned to INDEX and has not changed since, what the reader has read so
\* far is a prefix of it, and INDEX only ever refers to such a catalog.
C1_ReadersSeeWholeCatalog ==
    /\ \A r \in 1..Len(heap) :
          heap[r].pub.has => (heap[r].done /\ heap[r].items = heap[r].pub.val)
    /\ heap[INDEX].pub.has
    /\ \A t \in DOMAIN th :
          th[t].pc = "read" =>
              /\ heap[th[t].view.ref].pub.has
              /\ th[t].view.seen =
                    SubSeq(heap[th[t].view.ref].pub.val, 1, Len(th[t].view.seen))

\* a reader is part-way through a catalog that a reindex has replaced meanwhile,
\* while another build is being filled
C1_Witness ==
    \E t, u \in DOMAIN th :
        /\ th[t].pc = "read" /\ th[t].view.ref # INDEX
        /\ Len(th[t].view.seen) = 1 /\ Len(heap[th[t].view.ref].items) = 2
        /\ th[u].pc = "walk" /\ Len(heap[th[u].idx].items) = 1

\* C2: a failing cache write is not fatal: at startup and on an explicit reindex,
\* when the build succeeds and save_index raises, the freshly built catalog still
\* becomes the live INDEX and the operation completes without an error.
C2_SaveFailureNonFatal ==
    /\ mainPc # "crashed"
    /\ \A t \in DOMAIN th : th[t].pc # "failed"

ResolvedRoot == PathStr(resolve(PathParts(rootArg)))

\* C3 as stated: at startup the cache is adopted, without a rebuild, if and only if
\* the file exists, parses, and its stored root equals the resolved root; in every
\* other case build_index runs and its result becomes the live catalog; and the
\* live catalog's root is the root being served.
C3_AdoptIffRootMatches ==
    startup.has =>
        /\ startup.val.adopted <=>
              (startup.val.exists /\ startup.val.parses /\ startup.val.rootEq)
        /\ startup.val.adopted => startup.val.built = 0
        /\ ~startup.val.adopted => startup.val.built = startup.val.live
        /\ heap[INDEX].root = ResolvedRoot

\* C3 as amended: the cache is adopted if and only if the file exists, parses to an
\* object whose stored root equals the resolved root and whose items are a list.
C3_AdoptIffValid ==
    startup.has =>
        /\ startup.val.adopted <=>
              (startup.val.exists /\ startup.val.parses /\ startup.val.isObject
                  /\ startup.val.rootEq /\ startup.val.isList)
        /\ startup.val.adopted => startup.val.built = 0
        /\ ~startup.val.adopted => startup.val.built = startup.val.live
        /\ heap[INDEX].root = ResolvedRoot

\* the process was started on the symbolic link /l with a cache file that names
\* /l as its root: the cache was put aside, the catalog built, and after a reindex
\* the live catalog is still one of the resolved root
C3_Witness ==
    /\ startup.has /\ ~startup.val.adopted /\ startup.val.isObject /\ startup.val.isList
    /\ ~startup.val.rootEq
    /\ rootArg = <<"/">> \o nL
    /\ mainPc = "serving" /\ INDEX # startup.val.live
    /\ heap[INDEX].root = <<"/">> \o nR

----------------------------------------------------------------------------
(* Claims about ranking (SpecRank) *)

TierOf(it) == MatchTier(reqArgs.q, it.filename, it.relpath)

\* C4: for every query and every pair of entries, an entry whose fileName equals
\* the query scores strictly higher than any entry matched as a fileName
\* substring, and any entry matched as a fileName substring scores strictly
\* higher than any entry matched only as a relativePath substring.
C4_TiersStrictlyOrdered ==
    scoreOut.has =>
        \A i, j \in 1..Len(LiveItems) :
            /\ (TierOf(LiveItems[i]) = "exact" /\ TierOf(LiveItems[j]) = "filename")
                    => scoreOut.val[i] > scoreOut.val[j]
            /\ (TierOf(LiveItems[i]) = "filename" /\ TierOf(LiveItems[j]) = "relpath")
                    => scoreOut.val[i] > scoreOut.val[j]

\* C5: for a non-empty query, every entry filter_items returns that matched by
\* fileName equality or fileName substring comes before every returned entry
\* that matched only by token scoring.
C5_SubstringAboveTokens ==
    ranked.has =>
        \A a, b \in 1..Len(ranked.val) :
            (TierOf(ranked.val[a]) \in {"exact", "filename"} /\ TierOf(ranked.val[b]) = "token")
                => a < b

\* the folder- and prefix-filtered entries, in catalog order
Filtered ==
    PrefixFilter(FolderFilter(LiveItems, safe_norm(reqArgs.folder)), strip(reqArgs.starts_with))

ScoreOf(it) == score_match(strip(reqArgs.q), it.filename, it.relpath)

\* C6: for a non-empty query filter_items returns exactly the filtered entries
\* whose score is not 0, by score descending, equal scores in catalog order; for
\* an empty or whitespace-only query it returns the filtered entries in catalog
\* order.
C6_ExactlyNonZeroScoresInOrder ==
    ranked.has =>
        IF strip(reqArgs.q) = <<>> THEN ranked.val = Filtered
        ELSE LET F == Filtered
                 K == {i \in 1..Len(F) : ScoreOf(F[i]) # 0}
                 Before(i) == {j \in K : \/ ScoreOf(F[j]) > ScoreOf(F[i])
                                          \/ (ScoreOf(F[j]) = ScoreOf(F[i]) /\ j < i)}
             IN  /\ Len(ranked.val) = Cardinality(K)
                 /\ \A i \in K : ranked.val[Cardinality(Before(i)) + 1] = F[i]

----------------------------------------------------------------------------
(* Claims about paging (SpecFeed) *)

\* the full filtered and ranked list of the client's filters
FullList == filter_items(LiveItems, reqArgs.q, reqArgs.folder, strip(reqArgs.starts_with))

EffOffset(raw) == LET v == ParseInt(IF raw = NoArg THEN <<"0">> ELSE raw).val
                  IN  IF v < 0 THEN 0 ELSE v
EffLimit(raw) == LET v == ParseInt(IF raw = NoArg THEN IntStr(DEFAULT_PAGE_SIZE) ELSE raw).val
                 IN  IF v < 1 THEN 1 ELSE IF v > MAX_PAGE_SIZE THEN MAX_PAGE_SIZE ELSE v

\* C7: against an unchanged catalog and fixed filters, the pages at offsets
\* 0, limit, 2*limit, ... until offset >= total concatenate to the full
\* filtered/ranked list, each entry once and in order; every page reports total =
\* the full filtered count; offset is clamped to >= 0 and limit to [1, 50]; an
\* offset past the end yields no items and the same total.
C7_PagesCoverListOnce ==
    /\ pgDone => pgAcc = FullList
    /\ \A k \in 1..Len(pgPages) :
          /\ pgPages[k].total = Len(FullList)
          /\ pgPages[k].offset = (k - 1) * pgPages[k].limit
    /\ (feedResp.has /\ feedResp.val.status = 200) =>
          LET page == feedResp.val.body
          IN  /\ page.total = Len(FullList)
              /\ page.offset = EffOffset(feedReq.val.offset)
              /\ page.limit = EffLimit(feedReq.val.limit)
              /\ page.offset >= 0 /\ page.limit \in 1..MAX_PAGE_SIZE
              /\ page.items = [i \in 1..Len(page.items) |-> FullList[page.offset + i]]
              /\ Len(page.items) <= page.limit
              /\ (page.offset + page.limit <= page.total) => Len(page.items) = page.limit
              /\ (page.offset + page.limit > page.total /\ page.offset <= page.total)
                    => Len(page.items) = page.total - page.offset
              /\ (page.offset >= page.total) => page.items = <<>>

\* a walk over the long catalog: the limit was clamped to MAX_PAGE_SIZE and the
\* walk took more than one page
C7_Witness ==
    /\ pgDone /\ Len(pgPages) >= 2
    /\ pgPages[1].limit = MAX_PAGE_SIZE
    /\ Len(pgAcc) > MAX_PAGE_SIZE

----------------------------------------------------------------------------
(* Claims about streaming (SpecStream) *)

RootParts == PathParts(ServedRoot)

\* the relative path a request names: the entry's, or the decoded path of /file
ReqKnown ==
    streamReq.val.route = "file"
        \/ \E i \in 1..Len(LiveItems) : LiveItems[i].id = streamReq.val.arg
ReqRelpath ==
    IF streamReq.val.route = "file" THEN safe_norm(unquote(streamReq.val.arg))
    ELSE LiveItems[CHOOSE i \in 1..Len(LiveItems) : LiveItems[i].id = streamReq.val.arg].relpath

\* the canonical path of the file the request names
ReqTarget == resolve(PathJoin(RootParts, ReqRelpath))

\* the request is for an entry whose file exists, as a regular file, under the root
ReqServable == ReqKnown /\ IsUnder(ReqTarget, RootParts) /\ NodeAt(ReqTarget).kind = "file"

\* C8: for a Range header bytes=<start>-<end> on a file of size S with
\* start <= min(end, S-1) (end = S-1 when omitted), stream_video answers 206 with
\* exactly the bytes start..min(end, S-1), Content-Range start-min(end,S-1)/S, and
\* a Content-Length equal to the number of bytes in the body.
C8_RangeBytesExact ==
    (streamResp.has /\ streamReq.val.route = "v" /\ ReqServable) =>
        \A st \in 0..MaxPos, en \in (-1)..MaxPos :
            LET content == NodeAt(ReqTarget).content
                size == Len(content)
                e0 == IF en < 0 THEN size - 1 ELSE en
                last == IF e0 < size - 1 THEN e0 ELSE size - 1
                resp == streamResp.val
            IN  (streamReq.val.range = Hdr(st, en) /\ st <= last) =>
                    /\ resp.status = 206
                    /\ resp.body = [i \in 1..(last - st + 1) |-> content[st + i]]
                    /\ resp.content_range = <<"b", "y", "t", "e", "s", " ">> \o IntStr(st)
                            \o <<"-">> \o IntStr(last) \o <<"/">> \o IntStr(size)
                    /\ resp.content_length = IntStr(Len(resp.body))

\* a range that ends past the file was clamped and answered with the file's tail
C8_Witness ==
    /\ streamResp.has /\ streamReq.val.route = "v" /\ ReqServable
    /\ streamReq.val.range = Hdr(10, MaxPos)
    /\ streamResp.val.status = 206
    /\ Len(streamResp.val.body) = FileSize - 10

\* C9: when start > end after end is clamped to size-1 (every range on an empty
\* file included), stream_video fails with 416 and never opens or reads the file.
C9_UnsatisfiableIs416 ==
    (streamResp.has /\ streamReq.val.route = "v" /\ ReqServable) =>
        \A st \in 0..MaxPos, en \in (-1)..MaxPos :
            LET size == Len(NodeAt(ReqTarget).content)
                e0 == IF en < 0 THEN size - 1 ELSE en
                last == IF e0 < size - 1 THEN e0 ELSE size - 1
            IN  (streamReq.val.range = Hdr(st, en) /\ st > last) =>
                    /\ streamResp.val.status = 416
                    /\ ~streamResp.val.opened
                    /\ streamResp.val.body = <<>>

\* a start past the end of a non-empty file, with an end that had to be clamped
C9_Witness ==
    /\ streamResp.has /\ streamReq.val.route = "v" /\ ReqServable
    /\ Len(NodeAt(ReqTarget).content) = FileSize
    /\ streamReq.val.range = Hdr(FileSize, MaxPos)
    /\ streamResp.val.status = 416

\* C10: neither stream_video nor open_file returns bytes of a file whose canonical
\* path is not the root or below it; a path that resolves outside the root (by
\* ".." or by a symbolic link) yields 404 whether or not a file exists there, and
\* a missing target yields 404.
C10_NoEscape ==
    streamResp.has =>
        LET resp == streamResp.val
        IN  /\ resp.status \in {200, 206} =>
                  /\ IsUnder(resp.file, RootParts)
                  /\ resp.file = ReqTarget
                  /\ \A i \in 1..Len(resp.body) :
                        \E k \in 1..Len(NodeAt(resp.file).content) :
                            resp.body[i] = NodeAt(resp.file).content[k]
            /\ (ReqKnown /\ ~IsUnder(ReqTarget, RootParts)) => resp.status = 404
            /\ (ReqKnown /\ NodeAt(ReqTarget).kind = "missing") => resp.status = 404
            /\ ~ReqKnown => resp.status = 404

\* a request that leaves the root for a sibling directory whose name starts like
\* the root's, where a file exists, was answered 404
C10_Witness ==
    /\ streamResp.has
    /\ ReqKnown /\ ReqTarget = <<nRx, nS>> /\ NodeAt(ReqTarget).kind = "file"
    /\ streamResp.val.status = 404

----------------------------------------------------------------------------
(* Claims about numeric query parameters (SpecFeed) *)

\* values of a numeric parameter that int() rejects
Malformed == { <<>>, <<"x">>, <<"1", ".", "5">> }

\* C11: on /api/feed (offset, limit) and /api/suggest (limit), a value that does
\* not parse as an integer produces a 400 response and is never silently replaced
\* by a default.
C11_MalformedIs400 ==
    /\ (feedResp.has /\ (feedReq.val.offset \in Malformed \/ feedReq.val.limit \in Malformed))
          => feedResp.val.status = 400
    /\ (suggestResp.has /\ suggestReq.val.limit \in Malformed)
          => suggestResp.val.status = 400

----------------------------------------------------------------------------
(* Claims about build_index (SpecBuild) *)

\* the entries of all catalogs returned so far
Entries == UNION {{builds[k].items[i] : i \in 1..Len(builds[k].items)} : k \in 1..Len(builds)}

\* C12: compute_id is a function of (relativePath, modifiedAt, sizeBytes), so two
\* builds over an unchanged tree give every file the same id; and for one file
\* (fixed relativePath), a change of its size, of its modification time, or of
\* both gives a different id.
C12_IdTracksFile ==
    /\ \A j, k \in 1..Len(builds) :
          (builds[j].clean /\ builds[k].clean /\ builds[j].tree = builds[k].tree)
             => builds[j].items = builds[k].items
    /\ \A e1, e2 \in Entries :
          (/\ e1.relpath = e2.relpath /\ e1.filename = e2.filename
           /\ (e1.mtime # e2.mtime \/ e1.size # e2.size))
             => e1.id # e2.id

\* C13: every catalog build_index returns has at most one entry per relativePath.
C13_OneEntryPerRelpath ==
    \A k \in 1..Len(builds) :
        \A i, j \in 1..Len(builds[k].items) :
            i # j => builds[k].items[i].relpath # builds[k].items[j].relpath

\* C14: build_index never aborts because one entry disappears during the walk;
\* the entry is skipped and the catalog returned holds every other video file.
C14_BuildNeverAborts ==
    /\ bld.pc # "aborted"
    /\ \A k \in 1..Len(builds) :
          \A a \in 1..Len(builds[k].live) :
              (\E b \in 1..Len(builds[k].listed) : builds[k].listed[b] = builds[k].live[a])
                 => \E i \in 1..Len(builds[k].items) :
                       builds[k].items[i].filename = builds[k].live[a][Len(builds[k].live[a])]

----------------------------------------------------------------------------
(* Claims about concurrent reindex requests (Spec) *)

\* no reindex request is in progress
NoReindexRunning == \A t \in DOMAIN th : th[t].pc \in {"idle", "read"}

\* every catalog that was built became INDEX: no reindex request ended in an error
AllAssigned == \A r \in 1..Len(heap) : heap[r].pub.has

\* the catalog of the reindex request that started last; catalogs are made in the
\* order in which their builds start
LastStarted == Len(heap)

\* C15: once all concurrent reindex requests have completed without error, the
\* catalog in the cache file is the same build as the live INDEX, and that build
\* is the most recently started one.
C15_LastBuildWins ==
    (/\ mainPc = "serving" /\ NoReindexRunning /\ AllAssigned
     /\ LastStarted > startup.val.live)
        => /\ cache = SavedOf(heap[INDEX], INDEX)
           /\ INDEX = LastStarted

====
